---- MODULE Spec2Model ----
(***************************************************************************)
(* Model of the eval_binary scoring tool of bubbola-auto-extract:          *)
(* the corpus loader (_parse_payload), the field flattener                 *)
(* (_flatten_fields), the two similarity functions, the scoring loop of    *)
(* evaluate_predictions and the command line driver (cli.main).            *)
(*                                                                         *)
(* Strings are sequences of one-character strings, so that joining paths,  *)
(* sorting and difflib's matching-block ratio are computed, not assumed.   *)
(* Numbers are integers; scores are exact rationals [num, den] in lowest   *)
(* terms (the code uses binary floating point).                            *)
(***************************************************************************)
EXTENDS Integers, Sequences, FiniteSets, TLC

(***************************************************************************)
(* Bounds of the model.                                                    *)
(***************************************************************************)
\* the numeric leaves of the documents range over 1..MaxNum
MaxNum == 2
\* width (keys per object) of the trees of the flattening specification
MaxWidth == 2
\* the numbers of the similarity specification range over -MaxAbs..MaxAbs
MaxAbs == 3
\* length of the strings of the similarity specification
MaxStrLen == 3
\* number of records of a payload in the loader specification
MaxRecords == 3

(***************************************************************************)
(* Characters and strings.                                                 *)
(***************************************************************************)
\* the characters the model uses, in code point order (Python compares
\* strings by code point)
Alphabet ==
    << "-", ".", "0", "1", "2", "3", "4", "5", "6", "7", "8", "9",
       "a", "b", "c", "d", "e", "f", "g", "h", "i", "j", "k", "l", "m",
       "n", "o", "p", "q", "r", "s", "t", "u", "v", "w", "x", "y", "z" >>

ord(c) == CHOOSE i \in 1..Len(Alphabet) : Alphabet[i] = c

\* Python's str.__lt__: lexicographic by code point, a proper prefix first
RECURSIVE StrLess(_, _)
StrLess(a, b) ==
    IF b = <<>> THEN FALSE
    ELSE IF a = <<>> THEN TRUE
    ELSE IF Head(a) # Head(b) THEN ord(Head(a)) < ord(Head(b))
    ELSE StrLess(Tail(a), Tail(b))

\* insertion of one string into a sorted list, before the first greater one
RECURSIVE InsertSorted(_, _)
InsertSorted(x, xs) ==
    IF xs = <<>> THEN <<x>>
    ELSE IF StrLess(x, Head(xs)) THEN <<x>> \o xs
    ELSE <<Head(xs)>> \o InsertSorted(x, Tail(xs))

\* sorted(iterable of str)
RECURSIVE sorted(_)
sorted(xs) ==
    IF xs = <<>> THEN <<>> ELSE InsertSorted(Head(xs), sorted(Tail(xs)))

\* str(int) for the non-negative indices enumerate() produces
RECURSIVE str(_)
str(i) ==
    IF i < 10 THEN << Alphabet[i + 3] >>
    ELSE str(i \div 10) \o << Alphabet[(i % 10) + 3] >>

Range(xs) == { xs[i] : i \in 1..Len(xs) }

(***************************************************************************)
(* Python dicts: insertion-ordered sequences of <<key, value>> with        *)
(* distinct keys.                                                          *)
(***************************************************************************)
keys(d) == [ i \in 1..Len(d) |-> d[i][1] ]
values(d) == [ i \in 1..Len(d) |-> d[i][2] ]
KeySet(d) == { d[i][1] : i \in 1..Len(d) }
HasKey(d, k) == \E i \in 1..Len(d) : d[i][1] = k
\* d[k], for a key that is present
Get(d, k) == d[CHOOSE i \in 1..Len(d) : d[i][1] = k][2]
\* d[k] = v: an existing key keeps its position, a new key goes last
DictSet(d, k, v) ==
    IF HasKey(d, k)
    THEN [ i \in 1..Len(d) |-> IF d[i][1] = k THEN <<k, v>> ELSE d[i] ]
    ELSE Append(d, <<k, v>>)
\* d.update(e)
RECURSIVE DictUpdate(_, _)
DictUpdate(d, e) ==
    IF e = <<>> THEN d
    ELSE DictUpdate(DictSet(d, Head(e)[1], Head(e)[2]), Tail(e))
\* d == e for dicts: same keys with the same values, whatever the order
DictEq(d, e) ==
    /\ KeySet(d) = KeySet(e)
    /\ \A k \in KeySet(d) : Get(d, k) = Get(e, k)
\* variant: the items are left in insertion order
SortedItems_inserted(d) == d

\* dict(sorted(d.items())): items ordered by key (keys are distinct)
SortedItems(d) ==
    LET ks == sorted(keys(d))
    IN  [ i \in 1..Len(ks) |-> <<ks[i], Get(d, ks[i])>> ]

(***************************************************************************)
(* JSON values.  One record shape for every kind, so that any two values   *)
(* can be compared: t is the kind, s the text of a string, n the number    *)
(* (1/0 for true/false), kids the <<key, value>> members of an object or   *)
(* the <<(), value>> elements of an array.                                 *)
(***************************************************************************)
Str(s)  == [t |-> "str",  s |-> s,    n |-> 0, kids |-> <<>>]
Num(n)  == [t |-> "num",  s |-> <<>>, n |-> n, kids |-> <<>>]
Bool(b) == [t |-> "bool", s |-> <<>>, n |-> IF b THEN 1 ELSE 0, kids |-> <<>>]
Null    == [t |-> "null", s |-> <<>>, n |-> 0, kids |-> <<>>]
Obj(kv) == [t |-> "obj",  s |-> <<>>, n |-> 0, kids |-> kv]
Arr(xs) == [t |-> "arr",  s |-> <<>>, n |-> 0,
            kids |-> [ i \in 1..Len(xs) |-> << <<>>, xs[i] >> ]]

IsScalar(v) == v.t \in {"str", "num", "bool", "null"}

(***************************************************************************)
(* Exact rationals.                                                        *)
(***************************************************************************)
Abs(x) == IF x < 0 THEN -x ELSE x
Max(a, b) == IF a >= b THEN a ELSE b
Min(a, b) == IF a <= b THEN a ELSE b

RECURSIVE GCD(_, _)
GCD(a, b) == IF b = 0 THEN a ELSE GCD(b, a % b)

\* n/d in lowest terms, d > 0
Rat(n, d) ==
    LET g == GCD(Abs(n), d)
    IN  [num |-> n \div g, den |-> d \div g]
Zero == Rat(0, 1)
One == Rat(1, 1)
RAdd(x, y) == Rat(x.num * y.den + y.num * x.den, x.den * y.den)
RSub(x, y) == Rat(x.num * y.den - y.num * x.den, x.den * y.den)
\* x / k for an integer k > 0
RDivInt(x, k) == Rat(x.num, x.den * k)
RLeq(x, y) == x.num * y.den <= y.num * x.den
RMax(x, y) == IF RLeq(y, x) THEN x ELSE y
RMin(x, y) == IF RLeq(x, y) THEN x ELSE y
InUnit(x) == RLeq(Zero, x) /\ RLeq(x, One)

RECURSIVE Pow10(_)
Pow10(k) == IF k = 0 THEN 1 ELSE 10 * Pow10(k - 1)

\* round(x, ndigits) for x >= 0: to the nearest multiple of 10^-ndigits,
\* a tie going to the even one
round(x, ndigits) ==
    LET p == Pow10(ndigits)
        q == (x.num * p) \div x.den
        r == (x.num * p) % x.den
        up == \/ 2 * r > x.den
              \/ 2 * r = x.den /\ q % 2 = 1
    IN  Rat(IF up THEN q + 1 ELSE q, p)

(***************************************************************************)
(* evaluator.py: _is_number, _flatten_fields.                              *)
(***************************************************************************)
\* variant: a boolean passes for a number, as isinstance(True, Number)
_is_number_with_bool(value) == value.t \in {"num", "bool"}

\* isinstance(value, Number) and not isinstance(value, bool)
_is_number(value) == value.t = "num"

\* ".".join(path)
RECURSIVE JoinPath(_)
JoinPath(path) ==
    IF path = <<>> THEN <<>>
    ELSE IF Len(path) = 1 THEN path[1]
    ELSE path[1] \o <<".">> \o JoinPath(Tail(path))

\* the scalar branch raises ValueError when the path is empty
_flatten_fields_raises(data, path) == IsScalar(data) /\ path = <<>>

\* the dict _flatten_fields returns: the members are visited in order and
\* each sub-result is merged with dict.update, a later entry replacing an
\* earlier one of the same path
RECURSIVE _flatten_fields(_, _)
_flatten_fields(data, path) ==
    LET RECURSIVE Walk(_, _)
        Walk(i, flattened) ==
            IF i > Len(data.kids) THEN flattened
            ELSE LET seg == IF data.t = "obj" THEN data.kids[i][1]
                            ELSE str(i - 1)
                 IN  Walk(i + 1,
                          DictUpdate(flattened,
                                     _flatten_fields(data.kids[i][2],
                                                     Append(path, seg))))
    IN  IF data.t \in {"obj", "arr"} THEN Walk(1, <<>>)
        ELSE << <<JoinPath(path), data>> >>

(***************************************************************************)
(* difflib.SequenceMatcher(None, a, b).ratio(), as _text_similarity calls  *)
(* it.  Positions are 0-based and ranges half-open, as in difflib.  The    *)
(* autojunk heuristic only acts on sequences of 200 or more elements.      *)
(***************************************************************************)
\* length of the longest common run a[i:i+k] == b[j:j+k] inside the ranges
RECURSIVE RunLen(_, _, _, _, _, _)
RunLen(a, b, i, j, ahi, bhi) ==
    IF i < ahi /\ j < bhi /\ a[i + 1] = b[j + 1]
    THEN 1 + RunLen(a, b, i + 1, j + 1, ahi, bhi)
    ELSE 0

\* find_longest_match: <<i, j, k>> of a longest matching block; of those
\* the one starting earliest in a, then earliest in b; <<alo, blo, 0>> when
\* nothing matches
find_longest_match(a, b, alo, ahi, blo, bhi) ==
    LET Pos == (alo..(ahi - 1)) \X (blo..(bhi - 1))
        K(p) == RunLen(a, b, p[1], p[2], ahi, bhi)
        best == IF Pos = {} THEN 0
                ELSE CHOOSE k \in { K(p) : p \in Pos } :
                         \A p \in Pos : K(p) <= k
    IN  IF best = 0 THEN <<alo, blo, 0>>
        ELSE LET Cand == { p \in Pos : K(p) = best }
                 i == CHOOSE x \in { p[1] : p \in Cand } :
                          \A p \in Cand : x <= p[1]
                 j == CHOOSE y \in { p[2] : p \in { c \in Cand : c[1] = i } } :
                          \A p \in { c \in Cand : c[1] = i } : y <= p[2]
             IN  <<i, j, best>>

\* get_matching_blocks: total size of the blocks found by taking the
\* longest match and recursing to its left and to its right
RECURSIVE MatchingSize(_, _, _, _, _, _)
MatchingSize(a, b, alo, ahi, blo, bhi) ==
    LET m == find_longest_match(a, b, alo, ahi, blo, bhi)
        i == m[1]
        j == m[2]
        k == m[3]
    IN  IF k = 0 THEN 0
        ELSE k
             + (IF alo < i /\ blo < j
                THEN MatchingSize(a, b, alo, i, blo, j) ELSE 0)
             + (IF i + k < ahi /\ j + k < bhi
                THEN MatchingSize(a, b, i + k, ahi, j + k, bhi) ELSE 0)

\* variant: the matches are not doubled
ratio_unscaled(a, b) ==
    LET length == Len(a) + Len(b)
    IN  IF length # 0
        THEN Rat(MatchingSize(a, b, 0, Len(a), 0, Len(b)), length)
        ELSE One

\* ratio(): 2.0 * matches / length, and 1.0 when both sequences are empty
ratio(a, b) ==
    LET length == Len(a) + Len(b)
    IN  IF length # 0
        THEN Rat(2 * MatchingSize(a, b, 0, Len(a), 0, Len(b)), length)
        ELSE One

(***************************************************************************)
(* evaluator.py: the similarity functions.                                 *)
(***************************************************************************)
_numeric_similarity(expected, actual) ==
    IF ~_is_number(actual) THEN Zero
    ELSE LET exp == expected.n
             act == actual.n
             scale == Max(Max(Abs(exp), Abs(act)), 1)
             diff == Rat(Abs(exp - act), scale)
         IN  RMax(Zero, RSub(One, RMin(diff, One)))

_text_similarity(expected, actual) ==
    IF actual.t # "str" THEN Zero
    ELSE ratio(expected, actual.s)

\* json.dumps(value, sort_keys=True) of a scalar that is not a string
json_dumps(value) ==
    CASE value.t = "null" -> <<"n", "u", "l", "l">>
      [] value.t = "bool" -> IF value.n = 1 THEN <<"t", "r", "u", "e">>
                             ELSE <<"f", "a", "l", "s", "e">>
      [] value.t = "num"  -> IF value.n < 0 THEN <<"-">> \o str(-value.n)
                             ELSE str(value.n)
      [] OTHER            -> value.s

(***************************************************************************)
(* evaluator.py: evaluate_predictions.  ev is the record of the function's *)
(* local variables; a corpus is a dict from document id to field tree.     *)
(***************************************************************************)
\* the elements of xs that are not in the set S, in the order of xs
RECURSIVE Without(_, _)
Without(xs, S) ==
    IF xs = <<>> THEN <<>>
    ELSE IF Head(xs) \in S THEN Without(Tail(xs), S)
    ELSE <<Head(xs)>> \o Without(Tail(xs), S)

\* lines 125-139: the locals before the loop
EvalInit(ground_truth, predictions) ==
    [ total_fields |-> 0,
      docs_with_predictions |-> 0,
      matched_fields |-> 0,
      numeric_total |-> 0,
      numeric_score |-> Zero,
      text_total |-> 0,
      text_score |-> Zero,
      missing_docs |-> <<>>,
      extra_docs |-> sorted(Without(keys(predictions), KeySet(ground_truth))),
      missing_field_count |-> 0,
      extra_field_count |-> 0,
      missing_fields_by_doc |-> <<>>,
      extra_fields_by_doc |-> <<>> ]

\* _record_missing_fields: the entry is written only for a non-empty list
_record_missing_fields(doc_id, gt_fields, missing_fields) ==
    LET paths == sorted(keys(gt_fields))
    IN  IF paths = <<>> THEN missing_fields
        ELSE DictSet(missing_fields, doc_id, paths)

\* variant: the leaves of an unpredicted document are not classified
CountClasses_skipped(vals, ev) == ev

\* lines 149-153: the leaves of an unpredicted document are only counted
RECURSIVE CountClasses(_, _)
CountClasses(vals, ev) ==
    IF vals = <<>> THEN ev
    ELSE CountClasses(Tail(vals),
            IF _is_number(Head(vals))
            THEN [ev EXCEPT !.numeric_total = @ + 1]
            ELSE [ev EXCEPT !.text_total = @ + 1])

\* variant: every predicted path counted as matched
common_paths_predicted(gt_flat, pred_flat) == KeySet(pred_flat)

\* line 158-159: len(common_paths)
common_paths(gt_flat, pred_flat) == KeySet(gt_flat) \cap KeySet(pred_flat)
\* line 161
missing_paths(gt_flat, pred_flat) ==
    sorted(Without(keys(gt_flat), KeySet(pred_flat)))
\* variant: every predicted path reported as extra
extra_paths_all(gt_flat, pred_flat) == sorted(keys(pred_flat))

\* line 166
extra_paths(gt_flat, pred_flat) ==
    sorted(Without(keys(pred_flat), KeySet(gt_flat)))

\* pred_flat.get(path): None (the same value as a JSON null) when absent
DictGetOrNone(d, k) == IF HasKey(d, k) THEN Get(d, k) ELSE Null

\* the number of decimals of the reported ratios
NDigits == 4

\* variant: each similarity is rounded before it is added to its sum
ScoreField_rounded(ev, expected, predicted) ==
    IF _is_number(expected)
    THEN [ev EXCEPT
            !.numeric_total = @ + 1,
            !.numeric_score =
                IF predicted # Null
                THEN RAdd(@, round(_numeric_similarity(expected, predicted),
                                   NDigits))
                ELSE @]
    ELSE [ev EXCEPT
            !.text_total = @ + 1,
            !.text_score =
                IF predicted # Null
                THEN LET expected_text ==
                             IF expected.t = "str" THEN expected.s
                             ELSE json_dumps(expected)
                     IN  RAdd(@, round(_text_similarity(expected_text,
                                                        predicted), NDigits))
                ELSE @]

\* lines 172-181: one iteration of the scoring loop
ScoreField(ev, expected, predicted) ==
    IF _is_number(expected)
    THEN [ev EXCEPT
            !.numeric_total = @ + 1,
            !.numeric_score =
                IF predicted # Null
                THEN RAdd(@, _numeric_similarity(expected, predicted))
                ELSE @]
    ELSE [ev EXCEPT
            !.text_total = @ + 1,
            !.text_score =
                IF predicted # Null
                THEN LET expected_text ==
                             IF expected.t = "str" THEN expected.s
                             ELSE json_dumps(expected)
                     IN  RAdd(@, _text_similarity(expected_text, predicted))
                ELSE @]

\* variant: only the paths present in the prediction are iterated
RECURSIVE ScoreFields_present(_, _, _)
ScoreFields_present(items, pred_flat, ev) ==
    IF items = <<>> THEN ev
    ELSE ScoreFields_present(Tail(items), pred_flat,
            IF HasKey(pred_flat, Head(items)[1])
            THEN ScoreField(ev, Head(items)[2], Get(pred_flat, Head(items)[1]))
            ELSE ev)

\* lines 171-181: for path, expected in gt_flat.items()
RECURSIVE ScoreFields(_, _, _)
ScoreFields(items, pred_flat, ev) ==
    IF items = <<>> THEN ev
    ELSE ScoreFields(Tail(items), pred_flat,
            ScoreField(ev, Head(items)[2],
                       DictGetOrNone(pred_flat, Head(items)[1])))

\* variant: the fields of an unpredicted document are listed, not counted
EvalMissingDoc_uncounted(ev, doc_id, gt_flat) ==
    CountClasses(values(gt_flat),
        [ev EXCEPT
            !.missing_docs = Append(@, doc_id),
            !.missing_fields_by_doc =
                _record_missing_fields(doc_id, gt_flat, @)])

\* lines 145-154: the document has no prediction
EvalMissingDoc(ev, doc_id, gt_flat) ==
    CountClasses(values(gt_flat),
        [ev EXCEPT
            !.missing_docs = Append(@, doc_id),
            !.missing_field_count = @ + Len(gt_flat),
            !.missing_fields_by_doc =
                _record_missing_fields(doc_id, gt_flat, @)])

\* lines 156-181: the document has a prediction
EvalMatchedDoc(ev, doc_id, gt_flat, pred_flat) ==
    LET missing == missing_paths(gt_flat, pred_flat)
        extra == extra_paths(gt_flat, pred_flat)
    IN  ScoreFields(gt_flat, pred_flat,
            [ev EXCEPT
                !.docs_with_predictions = @ + 1,
                !.matched_fields =
                    @ + Cardinality(common_paths(gt_flat, pred_flat)),
                !.missing_fields_by_doc =
                    IF missing # <<>> THEN DictSet(@, doc_id, missing) ELSE @,
                !.missing_field_count =
                    IF missing # <<>> THEN @ + Len(missing) ELSE @,
                !.extra_fields_by_doc =
                    IF extra # <<>> THEN DictSet(@, doc_id, extra) ELSE @,
                !.extra_field_count =
                    IF extra # <<>> THEN @ + Len(extra) ELSE @])

\* lines 141-181: one iteration of the loop over ground_truth.items()
EvalDoc(ev, doc_id, gt_fields, predictions) ==
    LET gt_flat == _flatten_fields(gt_fields, <<>>)
        ev1 == [ev EXCEPT !.total_fields = @ + Len(gt_flat)]
    IN  IF ~HasKey(predictions, doc_id)
        THEN EvalMissingDoc(ev1, doc_id, gt_flat)
        ELSE EvalMatchedDoc(ev1, doc_id, gt_flat,
                            _flatten_fields(Get(predictions, doc_id), <<>>))

\* variant: the count of extra fields is overwritten instead of increased
EvalExtraDoc_overwrite(ev, doc_id, predictions) ==
    LET extra_flat == _flatten_fields(Get(predictions, doc_id), <<>>)
    IN  IF extra_flat # <<>>
        THEN [ev EXCEPT
                !.extra_fields_by_doc =
                    DictSet(@, doc_id, sorted(keys(extra_flat))),
                !.extra_field_count = Len(extra_flat)]
        ELSE ev

\* lines 183-187: one iteration of the loop over extra_docs
EvalExtraDoc(ev, doc_id, predictions) ==
    LET extra_flat == _flatten_fields(Get(predictions, doc_id), <<>>)
    IN  IF extra_flat # <<>>
        THEN [ev EXCEPT
                !.extra_fields_by_doc =
                    DictSet(@, doc_id, sorted(keys(extra_flat))),
                !.extra_field_count = @ + Len(extra_flat)]
        ELSE ev

\* variant: the default taken when the score sum, not the total, is zero
numeric_similarity_on_score(ev) ==
    IF ev.numeric_score # Zero
    THEN RDivInt(ev.numeric_score, ev.numeric_total) ELSE One

\* variant: a ground truth without fields scores 0.0
structural_completeness_zero(ev) ==
    IF ev.total_fields # 0
    THEN Rat(ev.matched_fields, ev.total_fields) ELSE Zero

\* lines 189-194: the four ratios and their mean, unrounded
numeric_similarity(ev) ==
    IF ev.numeric_total # 0
    THEN RDivInt(ev.numeric_score, ev.numeric_total) ELSE One
text_similarity(ev) ==
    IF ev.text_total # 0
    THEN RDivInt(ev.text_score, ev.text_total) ELSE One
structural_completeness(ev) ==
    IF ev.total_fields # 0
    THEN Rat(ev.matched_fields, ev.total_fields) ELSE One
coverage(ev, ground_truth) ==
    IF Len(ground_truth) # 0
    THEN Rat(ev.docs_with_predictions, Len(ground_truth)) ELSE Zero
overall_score(ev, ground_truth) ==
    RDivInt(RAdd(RAdd(coverage(ev, ground_truth),
                      structural_completeness(ev)),
                 RAdd(numeric_similarity(ev), text_similarity(ev))), 4)

\* lines 196-210: the report
BuildReport(ev, ground_truth) ==
    [ num_documents |-> Len(ground_truth),
      num_fields |-> ev.total_fields,
      document_coverage |-> round(coverage(ev, ground_truth), NDigits),
      numeric_field_similarity |-> round(numeric_similarity(ev), NDigits),
      text_field_similarity |-> round(text_similarity(ev), NDigits),
      structural_completeness |-> round(structural_completeness(ev), NDigits),
      overall_score |-> round(overall_score(ev, ground_truth), NDigits),
      missing_documents |-> sorted(ev.missing_docs),
      extra_documents |-> ev.extra_docs,
      missing_field_count |-> ev.missing_field_count,
      extra_field_count |-> ev.extra_field_count,
      missing_fields |-> SortedItems(ev.missing_fields_by_doc),
      extra_fields |-> SortedItems(ev.extra_fields_by_doc) ]

\* the two loops, run to their end from position i
RECURSIVE GtLoop(_, _, _, _)
GtLoop(ev, ground_truth, predictions, i) ==
    IF i > Len(ground_truth) THEN ev
    ELSE GtLoop(EvalDoc(ev, ground_truth[i][1], ground_truth[i][2],
                        predictions),
                ground_truth, predictions, i + 1)
RECURSIVE ExtraLoop(_, _, _)
ExtraLoop(ev, predictions, i) ==
    IF i > Len(ev.extra_docs) THEN ev
    ELSE ExtraLoop(EvalExtraDoc(ev, ev.extra_docs[i], predictions),
                   predictions, i + 1)

\* evaluate_predictions as a function of its two arguments
evaluate_predictions(ground_truth, predictions) ==
    BuildReport(
        ExtraLoop(GtLoop(EvalInit(ground_truth, predictions),
                         ground_truth, predictions, 1),
                  predictions, 1),
        ground_truth)

(***************************************************************************)
(* evaluator.py: _parse_payload.  An entry of a payload is a JSON value:   *)
(* isdict tells whether it is an object, document_id and fields are what   *)
(* entry.get() returns (None, modelled as Null, for an absent key), extra  *)
(* tells whether the object has further keys.                              *)
(***************************************************************************)
Entry(document_id, fields, extra) ==
    [isdict |-> TRUE, document_id |-> document_id, fields |-> fields,
     extra |-> extra]
NonDictEntry ==
    [isdict |-> FALSE, document_id |-> Null, fields |-> Null, extra |-> FALSE]

\* variant: the type of document_id is not checked
EntryAccepted_any_id(e) ==
    /\ e.isdict
    /\ e.fields.t = "obj"

\* lines 32-37: the entry passes both isinstance checks
EntryAccepted(e) ==
    /\ e.isdict
    /\ e.document_id.t = "str"
    /\ e.fields.t = "obj"

\* variant: a document id already stored keeps its first document
StoreDocument_first(documents, e) ==
    IF HasKey(documents, e.document_id.s) THEN documents
    ELSE DictSet(documents, e.document_id.s, e.fields)

\* line 38: documents[document_id] = Document(document_id, fields)
StoreDocument(documents, e) ==
    DictSet(documents, e.document_id.s, e.fields)

(***************************************************************************)
(* The inputs of the model.                                                *)
(***************************************************************************)
DocIds == { <<"a">>, <<"b">> }

\* the field trees of the documents
FieldTrees ==
    { Obj(<<>>) }
    \cup { Obj(<< <<<<"a">>, Num(n)>> >>) : n \in 1..MaxNum }
    \cup { Obj(<< <<<<"a">>, Bool(TRUE)>> >>),
           Obj(<< <<<<"a">>, Str(<<"b">>)>>,
                  <<<<"b">>, Arr(<< Null >>)>> >>),
           Obj(<< <<<<"b">>, Str(<<"b">>)>>,
                  <<<<"a">>, Str(<<"a", "b">>)>> >>),
           Obj(<< <<<<"a", ".", "b">>, Num(1)>>,
                  <<<<"a">>, Obj(<< <<<<"b">>, Str(<<"b">>)>> >>)>> >>) }

SomeTree == Obj(<< <<<<"a">>, Num(1)>> >>)

ValidEntries ==
    { Entry(Str(id), f, FALSE) : id \in DocIds, f \in FieldTrees }
    \cup { Entry(Str(<<"b">>), SomeTree, TRUE) }

MalformedEntries ==
    { NonDictEntry,
      Entry(Null, SomeTree, FALSE),
      Entry(Num(1), SomeTree, FALSE),
      Entry(Str(<<"a">>), Null, FALSE),
      Entry(Str(<<"a">>), Str(<<"a", "b">>), FALSE),
      Entry(Str(<<"a">>), Arr(<< Num(1) >>), FALSE) }

Entries == ValidEntries \cup MalformedEntries

(***************************************************************************)
(* The state of one run of the command line tool.                          *)
(***************************************************************************)
VARIABLES
    pc,            \* position in cli.main
    entry,         \* _parse_payload: the entry of the current iteration
    documents,     \* _parse_payload: the dict being filled
    ground_truth,  \* main: the loaded ground truth
    predictions,   \* main: the loaded predictions
    ev,            \* evaluate_predictions: its locals
    gi,            \* evaluate_predictions: position in ground_truth.items()
    xi,            \* evaluate_predictions: position in extra_docs
    metrics,       \* main: the report evaluate_predictions returned
    written,       \* what was written to the --output file
    printed,       \* the reports printed on standard output
    info_printed,  \* whether the build info was printed
    fatal,         \* the fatal condition the run met, "none" if none (history)
    fpc,           \* flattening specification: position
    tree,          \* flattening specification: the field tree
    reordered,     \* flattening specification: the tree with keys reordered
    flat1,         \* flattening specification: result of the first call
    flat2,         \* flattening specification: result of the second call
    flatr,         \* flattening specification: result for the reordered tree
    spc,           \* similarity specification: position
    sexp,          \* similarity specification: the expected value
    sact,          \* similarity specification: the actual value
    sres,          \* similarity specification: the returned score
    lpc,           \* loader specification: position in _parse_payload
    payload,       \* loader specification: the records iterated so far
    ldocuments     \* loader specification: the dict being filled

vars == << pc, entry, documents, ground_truth, predictions, ev, gi, xi,
           metrics, written, printed, info_printed, fatal,
           fpc, tree, reordered, flat1, flat2, flatr,
           spc, sexp, sact, sres, lpc, payload, ldocuments >>

loadVars == << entry, documents, ground_truth, predictions, fatal >>
evalVars == << ev, gi, xi >>
outVars == << metrics, written, printed, info_printed >>
cliVars == << pc, loadVars, evalVars, outVars >>
flatVars == << fpc, tree, reordered, flat1, flat2, flatr >>
simVars == << spc, sexp, sact, sres >>
loaderVars == << lpc, payload, ldocuments >>
pureVars == << flatVars, simVars, loaderVars >>

CliInit ==
    /\ pc = "start"
    /\ entry = <<>>
    /\ documents = <<>>
    /\ ground_truth = <<>>
    /\ predictions = <<>>
    /\ ev = EvalInit(<<>>, <<>>)
    /\ gi = 1
    /\ xi = 1
    /\ metrics = <<>>
    /\ written = <<>>
    /\ printed = <<>>
    /\ info_printed = FALSE
    /\ fatal = "none"

FlatIdle ==
    /\ fpc = "idle"
    /\ tree = Obj(<<>>)
    /\ reordered = Obj(<<>>)
    /\ flat1 = <<>>
    /\ flat2 = <<>>
    /\ flatr = <<>>

SimIdle ==
    /\ spc = "idle"
    /\ sexp = Null
    /\ sact = Null
    /\ sres = Zero

LoaderIdle ==
    /\ lpc = "idle"
    /\ payload = <<>>
    /\ ldocuments = <<>>

Init == CliInit /\ FlatIdle /\ SimIdle /\ LoaderIdle

\* cli.py 49-52: --info prints the build metadata and exits
MainInfo ==
    /\ pc = "start"
    /\ info_printed' = TRUE
    /\ pc' = "done"
    /\ UNCHANGED << loadVars, evalVars, metrics, written, printed >>
    /\ UNCHANGED pureVars

\* cli.py 54-55: no --predictions, parser.error exits
MainUsageError ==
    /\ pc = "start"
    /\ pc' = "error"
    /\ UNCHANGED << loadVars, evalVars, outVars >>
    /\ UNCHANGED pureVars

\* cli.py 57, evaluator.py 42-52: the embedded payload is read; a missing
\* payload raises GroundTruthNotFoundError, a payload that does not decode
\* to an iterable raises ValueError
LoadGroundTruth ==
    /\ pc = "start"
    /\ \E found \in BOOLEAN, iterable \in BOOLEAN :
          /\ pc' = IF found /\ iterable THEN "parse_gt" ELSE "error"
          /\ fatal' = IF ~found THEN "gt_missing"
                      ELSE IF ~iterable THEN "not_iterable" ELSE fatal
    /\ UNCHANGED << entry, documents, ground_truth, predictions >>
    /\ UNCHANGED << evalVars, outVars >>
    /\ UNCHANGED pureVars

\* variant: a malformed entry is skipped and the loop goes on
ParseEntry_skip ==
    /\ pc \in {"parse_gt", "parse_pred"}
    /\ \E e \in Entries :
          /\ entry' = <<e>>
          /\ IF EntryAccepted(e)
             THEN /\ documents' = StoreDocument(documents, e)
                  /\ UNCHANGED << pc, fatal >>
             ELSE /\ fatal' = "malformed"
                  /\ UNCHANGED << pc, documents >>
    /\ UNCHANGED << ground_truth, predictions, evalVars, outVars >>
    /\ UNCHANGED pureVars

\* evaluator.py 31-38: one iteration of the loop over the payload
ParseEntry ==
    /\ pc \in {"parse_gt", "parse_pred"}
    /\ \E e \in Entries :
          /\ entry' = <<e>>
          /\ IF EntryAccepted(e)
             THEN /\ documents' = StoreDocument(documents, e)
                  /\ UNCHANGED << pc, fatal >>
             ELSE /\ documents' = <<>>
                  /\ fatal' = "malformed"
                  /\ pc' = "error"
    /\ UNCHANGED << ground_truth, predictions, evalVars, outVars >>
    /\ UNCHANGED pureVars

\* evaluator.py 39, cli.py 57: the ground truth is returned to main
ReturnGroundTruth ==
    /\ pc = "parse_gt"
    /\ ground_truth' = documents
    /\ documents' = <<>>
    /\ entry' = <<>>
    /\ pc' = "load_pred"
    /\ UNCHANGED << predictions, fatal, evalVars, outVars >>
    /\ UNCHANGED pureVars

\* cli.py 58, evaluator.py 64-69: a prediction file that does not exist
\* raises FileNotFoundError, a payload that is not iterable ValueError
LoadPredictions ==
    /\ pc = "load_pred"
    /\ \E exists \in BOOLEAN, iterable \in BOOLEAN :
          /\ pc' = IF exists /\ iterable THEN "parse_pred" ELSE "error"
          /\ fatal' = IF ~exists THEN "pred_missing"
                      ELSE IF ~iterable THEN "not_iterable" ELSE fatal
    /\ UNCHANGED << entry, documents, ground_truth, predictions >>
    /\ UNCHANGED << evalVars, outVars >>
    /\ UNCHANGED pureVars

\* evaluator.py 39, cli.py 58-59, evaluator.py 125-139: the predictions are
\* returned and evaluate_predictions starts
ReturnPredictions ==
    /\ pc = "parse_pred"
    /\ predictions' = documents
    /\ documents' = <<>>
    /\ entry' = <<>>
    /\ ev' = EvalInit(ground_truth, documents)
    /\ gi' = 1
    /\ xi' = 1
    /\ pc' = "eval"
    /\ UNCHANGED << ground_truth, fatal, outVars >>
    /\ UNCHANGED pureVars

\* evaluator.py 141-181: one ground-truth document
EvalDocStep ==
    /\ pc = "eval"
    /\ gi <= Len(ground_truth)
    /\ ev' = EvalDoc(ev, ground_truth[gi][1], ground_truth[gi][2],
                     predictions)
    /\ gi' = gi + 1
    /\ UNCHANGED << pc, xi, loadVars, outVars >>
    /\ UNCHANGED pureVars

\* evaluator.py 183-187: one extra prediction document
EvalExtraStep ==
    /\ pc = "eval"
    /\ gi > Len(ground_truth)
    /\ xi <= Len(ev.extra_docs)
    /\ ev' = EvalExtraDoc(ev, ev.extra_docs[xi], predictions)
    /\ xi' = xi + 1
    /\ UNCHANGED << pc, gi, loadVars, outVars >>
    /\ UNCHANGED pureVars

\* evaluator.py 189-210, cli.py 59: the report is built and returned
ReturnReport ==
    /\ pc = "eval"
    /\ gi > Len(ground_truth)
    /\ xi > Len(ev.extra_docs)
    /\ metrics' = << BuildReport(ev, ground_truth) >>
    /\ pc' = "emit"
    /\ UNCHANGED << loadVars, evalVars, written, printed, info_printed >>
    /\ UNCHANGED pureVars

\* cli.py 62-63: with --output the report is written to the file
WriteOutput ==
    /\ pc = "emit"
    /\ written' = metrics
    /\ pc' = "print"
    /\ UNCHANGED << loadVars, evalVars, metrics, printed, info_printed >>
    /\ UNCHANGED pureVars

\* cli.py 62: without --output nothing is written
NoOutput ==
    /\ pc = "emit"
    /\ pc' = "print"
    /\ UNCHANGED << loadVars, evalVars, outVars >>
    /\ UNCHANGED pureVars

\* cli.py 64-65: the report is printed and main returns 0
PrintReport ==
    /\ pc = "print"
    /\ printed' = metrics
    /\ pc' = "done"
    /\ UNCHANGED << loadVars, evalVars, metrics, written, info_printed >>
    /\ UNCHANGED pureVars



Next ==
    \/ MainInfo
    \/ MainUsageError
    \/ LoadGroundTruth
    \/ ParseEntry
    \/ ReturnGroundTruth
    \/ LoadPredictions
    \/ ReturnPredictions
    \/ EvalDocStep
    \/ EvalExtraStep
    \/ ReturnReport
    \/ WriteOutput
    \/ NoOutput
    \/ PrintReport

Spec == Init /\ [][Next]_vars

(***************************************************************************)
(* The flattening specification: _flatten_fields applied to one field tree *)
(* twice, and to a tree obtained by reordering the keys of its objects.    *)
(***************************************************************************)
FlatKeys == { <<"a">>, <<"b">>, <<"a", ".", "b">>, <<"0">> }
FlatLeaves == { Num(1), Str(<<"b">>), Null }
\* the values of the members of the root: leaves, empty containers, and
\* containers of one leaf
FlatValues ==
    FlatLeaves
    \cup { Obj(<<>>), Arr(<<>>) }
    \cup { Obj(<< <<<<"b">>, v>> >>) : v \in FlatLeaves }
    \cup { Arr(<< v >>) : v \in FlatLeaves }

\* the injective sequences of n elements of S
Injective(S, n) ==
    { q \in [1..n -> S] : \A i, j \in 1..n : i # j => q[i] # q[j] }

\* t is an object of up to MaxWidth distinct keys or an array of up to
\* MaxWidth elements
IsFlatTree(t) ==
    \E n \in 0..MaxWidth :
        \E vs \in [1..n -> FlatValues] :
            \/ t = Arr(vs)
            \/ \E ks \in Injective(FlatKeys, n) :
                  t = Obj([ i \in 1..n |-> <<ks[i], vs[i]>> ])

\* the trees obtained from v by reordering the keys of its objects, at
\* every depth
RECURSIVE Reorderings(_)
Reorderings(v) ==
    LET n == Len(v.kids)
        Sub == { c \in [1..n -> UNION { Reorderings(v.kids[i][2]) : i \in 1..n }] :
                    \A i \in 1..n : c[i] \in Reorderings(v.kids[i][2]) }
        Perms == IF v.t = "obj" THEN Injective(1..n, n)
                 ELSE { [ i \in 1..n |-> i ] }
    IN  IF IsScalar(v) THEN {v}
        ELSE { [v EXCEPT !.kids =
                    [ i \in 1..n |-> <<v.kids[q[i]][1], c[q[i]]>> ]] :
                 q \in Perms, c \in Sub }

FlatInit ==
    /\ fpc = "first"
    /\ IsFlatTree(tree)
    /\ reordered = Obj(<<>>)
    /\ flat1 = <<>>
    /\ flat2 = <<>>
    /\ flatr = <<>>
    /\ CliInit
    /\ SimIdle
    /\ LoaderIdle

\* the first call
FlattenFirst ==
    /\ fpc = "first"
    /\ flat1' = _flatten_fields(tree, <<>>)
    /\ fpc' = "second"
    /\ UNCHANGED << tree, reordered, flat2, flatr, cliVars, simVars, loaderVars >>

\* the second call on the same tree
FlattenSecond ==
    /\ fpc = "second"
    /\ flat2' = _flatten_fields(tree, <<>>)
    /\ fpc' = "reorder"
    /\ UNCHANGED << tree, reordered, flat1, flatr, cliVars, simVars, loaderVars >>

\* the call on a reordering of the tree
FlattenReordered ==
    /\ fpc = "reorder"
    /\ \E r \in Reorderings(tree) :
          /\ reordered' = r
          /\ flatr' = _flatten_fields(r, <<>>)
    /\ fpc' = "done"
    /\ UNCHANGED << tree, flat1, flat2, cliVars, simVars, loaderVars >>

NextFlatten ==
    \/ FlattenFirst
    \/ FlattenSecond
    \/ FlattenReordered

SpecFlatten == FlatInit /\ [][NextFlatten]_vars

(***************************************************************************)
(* The similarity specification: _numeric_similarity and _text_similarity  *)
(* applied to one pair of an expected and an actual value.                 *)
(***************************************************************************)
AcmeCorp == <<"A", "c", "m", "e", " ", "C", "o", "r", "p">>
AcmeCorporation == AcmeCorp \o <<"o", "r", "a", "t", "i", "o", "n">>

SimNumbers == { Num(n) : n \in (-MaxAbs..MaxAbs) \cup {100} }
SimStrings ==
    UNION { [1..n -> {"a", "b"}] : n \in 0..MaxStrLen }
    \cup { AcmeCorp, AcmeCorporation }
\* values that are neither numbers nor strings
SimOthers == { Bool(TRUE), Bool(FALSE), Null }

SimInit ==
    /\ spc = "call"
    /\ \/ /\ sexp \in SimNumbers
          /\ sact \in SimNumbers \cup SimOthers \cup { Str(<<"1">>) }
       \/ /\ sexp \in { Str(x) : x \in SimStrings }
          /\ sact \in { Str(x) : x \in SimStrings } \cup SimOthers
                        \cup { Num(1) }
    /\ sres = Zero
    /\ CliInit
    /\ FlatIdle
    /\ LoaderIdle

\* evaluator.py 93-100
NumericSimilarity ==
    /\ spc = "call"
    /\ sexp.t = "num"
    /\ sres' = _numeric_similarity(sexp, sact)
    /\ spc' = "done"
    /\ UNCHANGED << sexp, sact, cliVars, flatVars, loaderVars >>

\* evaluator.py 103-106
TextSimilarity ==
    /\ spc = "call"
    /\ sexp.t = "str"
    /\ sres' = _text_similarity(sexp.s, sact)
    /\ spc' = "done"
    /\ UNCHANGED << sexp, sact, cliVars, flatVars, loaderVars >>

NextSim ==
    \/ NumericSimilarity
    \/ TextSimilarity

SpecSim == SimInit /\ [][NextSim]_vars

(***************************************************************************)
(* The loader specification: _parse_payload run on one payload of at most  *)
(* MaxRecords records, the records iterated so far being kept.             *)
(***************************************************************************)
LoaderEntries == ValidEntries \cup { NonDictEntry }

LoaderInit ==
    /\ lpc = "loop"
    /\ payload = <<>>
    /\ ldocuments = <<>>
    /\ CliInit
    /\ FlatIdle
    /\ SimIdle

\* evaluator.py 31-38: one iteration of the loop over the payload
LoaderParseEntry ==
    /\ lpc = "loop"
    /\ Len(payload) < MaxRecords
    /\ \E e \in LoaderEntries :
          /\ payload' = Append(payload, e)
          /\ IF EntryAccepted(e)
             THEN /\ ldocuments' = StoreDocument(ldocuments, e)
                  /\ lpc' = lpc
             ELSE /\ ldocuments' = <<>>
                  /\ lpc' = "raised"
    /\ UNCHANGED << cliVars, flatVars, simVars >>

\* evaluator.py 39: the payload is exhausted, the documents are returned
LoaderReturn ==
    /\ lpc = "loop"
    /\ lpc' = "returned"
    /\ UNCHANGED << payload, ldocuments, cliVars, flatVars, simVars >>

NextLoader ==
    \/ LoaderParseEntry
    \/ LoaderReturn

SpecLoader == LoaderInit /\ [][NextLoader]_vars

(***************************************************************************)
(* Properties.                                                             *)
(***************************************************************************)
\* the report, once evaluate_predictions has returned
HasReport == metrics # <<>>
report == metrics[1]

\* the set of the paths of the scalar leaves below data, computed on the
\* tree
RECURSIVE LeafPaths(_, _)
LeafPaths(data, path) ==
    IF IsScalar(data) THEN { JoinPath(path) }
    ELSE UNION { LeafPaths(data.kids[i][2],
                           Append(path, IF data.t = "obj" THEN data.kids[i][1]
                                        ELSE str(i - 1))) :
                 i \in 1..Len(data.kids) }

\* a list of strings in strictly increasing order
IsSorted(xs) == \A i \in 1..(Len(xs) - 1) : StrLess(xs[i], xs[i + 1])

\* the two corpora have the same ids and, per id, the same flattened fields
SameCorpus(gt, pred) ==
    /\ KeySet(gt) = KeySet(pred)
    /\ \A id \in KeySet(gt) :
          DictEq(_flatten_fields(Get(gt, id), <<>>),
                 _flatten_fields(Get(pred, id), <<>>))

\* the leaves of a corpus satisfying Q, as <<id, path>> pairs
LeavesWhere(corpus, Q(_)) ==
    UNION { { <<id, p>> :
                p \in { k \in KeySet(_flatten_fields(Get(corpus, id), <<>>)) :
                          Q(Get(_flatten_fields(Get(corpus, id), <<>>), k)) } } :
            id \in KeySet(corpus) }
IsNum(v) == v.t = "num"
IsNotNum(v) == v.t # "num"
AnyLeaf(v) == TRUE

\* C1: when the predictions have the same document ids and the same
\* flattened fields as the ground truth, the report has overall_score 1.0,
\* no missing or extra documents, zero missing and extra field counts and
\* empty missing_fields and extra_fields.  Stated for a ground truth of at
\* least one document: with no document at all the coverage takes its
\* default of 0.0 and the score is 0.75 whatever the leaves are.
C1_IdenticalCorporaScoreOne ==
    (HasReport /\ ground_truth # <<>>
               /\ SameCorpus(ground_truth, predictions)) =>
        /\ report.overall_score = One
        /\ report.missing_documents = <<>>
        /\ report.extra_documents = <<>>
        /\ report.missing_field_count = 0
        /\ report.extra_field_count = 0
        /\ report.missing_fields = <<>>
        /\ report.extra_fields = <<>>

\* C2: each of document_coverage, structural_completeness,
\* numeric_field_similarity, text_field_similarity and overall_score of a
\* report lies in the closed interval [0, 1].
C2_MetricsInUnitInterval ==
    HasReport =>
        /\ InUnit(report.document_coverage)
        /\ InUnit(report.structural_completeness)
        /\ InUnit(report.numeric_field_similarity)
        /\ InUnit(report.text_field_similarity)
        /\ InUnit(report.overall_score)

\* a report whose structural completeness, numeric similarity, text
\* similarity and overall score are all strictly between 0 and 1
C2_Witness ==
    /\ HasReport
    /\ \A m \in { report.structural_completeness,
                  report.numeric_field_similarity,
                  report.text_field_similarity, report.overall_score } :
          m # Zero /\ m # One

\* the document the loop over the ground truth is about to handle, and the
\* one it has just handled
CurId == ground_truth[gi][1]
CurFields == ground_truth[gi][2]
LastId == ground_truth[gi - 1][1]
\* a step of the loop over the ground truth
IsEvalDocStep == pc = "eval" /\ gi <= Len(ground_truth) /\ gi' = gi + 1
\* a step of the loop over the extra documents
IsEvalExtraStep == pc = "eval" /\ xi <= Len(ev.extra_docs) /\ xi' = xi + 1
\* the step in which evaluate_predictions returns its report
IsReturnReport == pc = "eval" /\ pc' = "emit"

\* d maps k to the sorted list of the elements of S when S is not empty,
\* and has no key k when it is
RecordsExactly(d, k, S) ==
    IF S = {} THEN ~HasKey(d, k)
    ELSE /\ HasKey(d, k)
         /\ IsSorted(Get(d, k))
         /\ Range(Get(d, k)) = S
         /\ Len(Get(d, k)) = Cardinality(S)

\* C3: for a ground-truth document that has a prediction, the loop adds
\* |gt paths \cap predicted paths| to matched_fields, records
\* missing_fields[doc] = sorted(gt paths - predicted paths) and
\* extra_fields[doc] = sorted(predicted paths - gt paths), each only when
\* non-empty, and increases missing_field_count and extra_field_count by
\* the sizes of those sets.
C3_MatchedDocumentDeltas ==
    [][ (IsEvalDocStep /\ HasKey(predictions, CurId)) =>
          LET G == LeafPaths(CurFields, <<>>)
              P == LeafPaths(Get(predictions, CurId), <<>>)
          IN  /\ ev'.matched_fields =
                     ev.matched_fields + Cardinality(G \cap P)
              /\ RecordsExactly(ev'.missing_fields_by_doc, CurId, G \ P)
              /\ RecordsExactly(ev'.extra_fields_by_doc, CurId, P \ G)
              /\ ev'.missing_field_count =
                     ev.missing_field_count + Cardinality(G \ P)
              /\ ev'.extra_field_count =
                     ev.extra_field_count + Cardinality(P \ G)
      ]_vars

\* a predicted document has just been handled that had matched, missing
\* and extra paths
C3_Witness ==
    /\ pc = "eval"
    /\ gi > 1
    /\ HasKey(predictions, LastId)
    /\ ev.matched_fields > 0
    /\ HasKey(ev.missing_fields_by_doc, LastId)
    /\ HasKey(ev.extra_fields_by_doc, LastId)

\* C4: for a ground-truth document without a prediction, the loop appends
\* the id to missing_docs, counts every flattened path as missing
\* (missing_fields[id] holds them all, missing_field_count grows by their
\* number), leaves matched_fields and the score sums alone, and adds each
\* leaf to its numeric or text total, so that the two totals are what they
\* would be had the document any prediction.
C4_MissingDocumentDeltas ==
    [][ (IsEvalDocStep /\ ~HasKey(predictions, CurId)) =>
          LET G == LeafPaths(CurFields, <<>>)
              one == << <<CurId, CurFields>> >>
          IN  /\ ev'.missing_docs = Append(ev.missing_docs, CurId)
              /\ RecordsExactly(ev'.missing_fields_by_doc, CurId, G)
              /\ ev'.missing_field_count =
                     ev.missing_field_count + Cardinality(G)
              /\ ev'.matched_fields = ev.matched_fields
              /\ ev'.numeric_score = ev.numeric_score
              /\ ev'.text_score = ev.text_score
              /\ ev'.numeric_total =
                     ev.numeric_total + Cardinality(LeavesWhere(one, IsNum))
              /\ ev'.text_total =
                     ev.text_total + Cardinality(LeavesWhere(one, IsNotNum))
              /\ \A f \in FieldTrees :
                    LET w == EvalDoc(ev, CurId, CurFields,
                                     DictSet(predictions, CurId, f))
                    IN  /\ w.numeric_total = ev'.numeric_total
                        /\ w.text_total = ev'.text_total
      ]_vars

\* an unpredicted document with a numeric leaf has just been handled,
\* after a predicted one
C4_Witness ==
    /\ pc = "eval"
    /\ gi > 2
    /\ ~HasKey(predictions, LastId)
    /\ HasKey(ev.missing_fields_by_doc, LastId)
    /\ LeavesWhere(<< ground_truth[gi - 1] >>, IsNum) # {}
    /\ LastId \in Range(ev.missing_docs)

\* the entries of corpus whose key is in S
RECURSIVE Restrict(_, _)
Restrict(corpus, S) ==
    IF corpus = <<>> THEN <<>>
    ELSE IF Head(corpus)[1] \in S
         THEN <<Head(corpus)>> \o Restrict(Tail(corpus), S)
         ELSE Restrict(Tail(corpus), S)

\* the <<id, path>> pairs of the predicted leaves that the ground truth
\* does not have
ExtraLeaves(gt, pred) ==
    UNION { { <<id, p>> :
                p \in LeafPaths(Get(pred, id), <<>>)
                      \ (IF HasKey(gt, id) THEN LeafPaths(Get(gt, id), <<>>)
                         ELSE {}) } :
            id \in KeySet(pred) }

\* C5: a prediction document whose id is not in the ground truth is listed
\* in extra_documents, all its flattened paths are recorded in
\* extra_fields[id] and their number is added to extra_field_count on top
\* of the extra paths of the matched documents; such documents change none
\* of num_documents, num_fields and the four ratio metrics.
C5_ExtraDocuments ==
    [][ /\ (IsEvalExtraStep /\ gi > Len(ground_truth)) =>
             LET id == ev.extra_docs[xi]
                 P == LeafPaths(Get(predictions, id), <<>>)
             IN  /\ id \notin KeySet(ground_truth)
                 /\ RecordsExactly(ev'.extra_fields_by_doc, id, P)
                 /\ ev'.extra_field_count =
                        ev.extra_field_count + Cardinality(P)
                 /\ ev' = [ev EXCEPT
                             !.extra_fields_by_doc = ev'.extra_fields_by_doc,
                             !.extra_field_count = ev'.extra_field_count]
        /\ IsReturnReport =>
             LET r == metrics'[1]
                 without == evaluate_predictions(ground_truth,
                                Restrict(predictions, KeySet(ground_truth)))
             IN  /\ Range(r.extra_documents) =
                        KeySet(predictions) \ KeySet(ground_truth)
                 /\ r.extra_field_count =
                        Cardinality(ExtraLeaves(ground_truth, predictions))
                 /\ r.num_documents = without.num_documents
                 /\ r.num_fields = without.num_fields
                 /\ r.document_coverage = without.document_coverage
                 /\ r.structural_completeness =
                        without.structural_completeness
                 /\ r.numeric_field_similarity =
                        without.numeric_field_similarity
                 /\ r.text_field_similarity = without.text_field_similarity
      ]_vars

\* a report with an extra document that has fields, next to a matched
\* document that has extra fields
C5_Witness ==
    /\ HasReport
    /\ \E id \in Range(report.extra_documents) :
          HasKey(report.extra_fields, id)
    /\ \E id \in KeySet(ground_truth) : HasKey(report.extra_fields, id)

\* C6: with an empty predictions corpus the report has document_coverage
\* 0.0, missing_documents equal to the sorted list of all ground-truth
\* ids, numeric_field_similarity 0 if the ground truth has a numeric leaf
\* and 1.0 otherwise, and text_field_similarity 0 if it has a non-numeric
\* leaf and 1.0 otherwise.
C6_EmptyPredictions ==
    (HasReport /\ predictions = <<>>) =>
        /\ report.document_coverage = Zero
        /\ IsSorted(report.missing_documents)
        /\ Range(report.missing_documents) = KeySet(ground_truth)
        /\ report.numeric_field_similarity =
               IF LeavesWhere(ground_truth, IsNum) # {} THEN Zero ELSE One
        /\ report.text_field_similarity =
               IF LeavesWhere(ground_truth, IsNotNum) # {} THEN Zero ELSE One

\* a report for two ground-truth documents, with numeric and text leaves,
\* and no predictions
C6_Witness ==
    /\ HasReport
    /\ predictions = <<>>
    /\ Len(ground_truth) = 2
    /\ LeavesWhere(ground_truth, IsNum) # {}
    /\ LeavesWhere(ground_truth, IsNotNum) # {}

\* C7: a ratio whose denominator is zero takes its default:
\* structural_completeness 1.0 without ground-truth leaves,
\* numeric_field_similarity 1.0 without numeric leaves,
\* text_field_similarity 1.0 without non-numeric leaves, document_coverage
\* 0.0 without ground-truth documents; and the evaluation, once started,
\* only proceeds to its report.
C7_ZeroDenominatorDefaults ==
    [][ pc = "eval" =>
          /\ pc' \in {"eval", "emit"}
          /\ IsReturnReport =>
               LET r == metrics'[1]
               IN  /\ (LeavesWhere(ground_truth, AnyLeaf) = {} =>
                           r.structural_completeness = One)
                   /\ (LeavesWhere(ground_truth, IsNum) = {} =>
                           r.numeric_field_similarity = One)
                   /\ (LeavesWhere(ground_truth, IsNotNum) = {} =>
                           r.text_field_similarity = One)
                   /\ (ground_truth = <<>> => r.document_coverage = Zero)
      ]_vars

\* a report for an empty ground truth and predictions that have fields
C7_Witness ==
    /\ HasReport
    /\ ground_truth = <<>>
    /\ report.extra_field_count > 0

\* a step of the loop of _parse_payload
IsParseStep ==
    /\ pc \in {"parse_gt", "parse_pred"}
    /\ pc' \in {pc, "error"}
    /\ entry' # <<>>

\* the loader accepts exactly the entries that are objects with a string
\* document_id and fields of one of the given kinds; an accepted entry is
\* stored under its id, a rejected one ends the load with an error
LoaderAcceptsExactly(kinds) ==
    IsParseStep =>
        LET e == entry'[1]
            ok == e.isdict /\ e.document_id.t = "str" /\ e.fields.t \in kinds
        IN  /\ (pc' = pc) <=> ok
            /\ pc' = pc =>
                  /\ HasKey(documents', e.document_id.s)
                  /\ Get(documents', e.document_id.s) = e.fields
            /\ pc' # pc => pc' = "error" /\ fatal' = "malformed"

C9_ReportOnlyAfterCompleteRun ==
    /\ (printed # <<>> \/ written # <<>>) =>
          /\ pc \in {"print", "done"}
          /\ fatal = "none"
          /\ HasReport
          /\ report = evaluate_predictions(ground_truth, predictions)
          /\ printed \in {<<>>, metrics}
          /\ written \in {<<>>, metrics}
    /\ fatal # "none" => pc = "error"
    /\ pc = "error" =>
          /\ printed = <<>>
          /\ written = <<>>
          /\ metrics = <<>>
          /\ documents = <<>>
          /\ predictions = <<>>

\* a run that ended in an error on a malformed prediction record, after
\* the ground truth was loaded
C9_Witness ==
    /\ pc = "error"
    /\ fatal = "malformed"
    /\ ground_truth # <<>>
    /\ entry # <<>>

\* C10: flattening a tree twice yields the same mapping, flattening a tree
\* obtained by reordering the keys of its objects yields the same mapping,
\* and an empty object or array flattens to the empty mapping.
C10_FlattenOrderIndependent ==
    fpc = "done" =>
        /\ DictEq(flat1, flat2)
        /\ DictEq(flat1, flatr)
        /\ (tree.kids = <<>> => flat1 = <<>>)

\* the scalar leaves below data, each with the sequence of keys and
\* indices that leads to it
RECURSIVE LeafPositions(_, _)
LeafPositions(data, path) ==
    IF IsScalar(data) THEN { <<path, data>> }
    ELSE UNION { LeafPositions(data.kids[i][2],
                               Append(path,
                                      IF data.t = "obj" THEN data.kids[i][1]
                                      ELSE str(i - 1))) :
                 i \in 1..Len(data.kids) }

\* C11: _flatten_fields gives each scalar leaf a path, the '.'-join of the
\* keys and indices from the root to it, that identifies its position: two
\* different leaf positions never get the same path, the mapping has
\* exactly one entry per leaf and holds every leaf's value under its path.
C11_PathsIdentifyLeaves ==
    fpc # "first" =>
        LET L == LeafPositions(tree, <<>>)
        IN  /\ \A p, q \in L :
                  p[1] # q[1] => JoinPath(p[1]) # JoinPath(q[1])
            /\ Len(flat1) = Cardinality(L)
            /\ \A p \in L :
                  /\ HasKey(flat1, JoinPath(p[1]))
                  /\ Get(flat1, JoinPath(p[1])) = p[2]

\* C12: _numeric_similarity(expected, actual) is 0 when actual is not a
\* number or is a boolean, and otherwise max(0, 1 - min(d / m, 1)) with
\* d = |expected - actual| and m = max(|expected|, |actual|, 1), that is 0
\* when d >= m and (m - d) / m otherwise; it is always in [0, 1], exactly 1
\* for equal values and exactly 0 for (100, 0).
C12_NumericSimilarity ==
    (spc = "done" /\ sexp.t = "num") =>
        LET d == Abs(sexp.n - sact.n)
            m == Max(Max(Abs(sexp.n), Abs(sact.n)), 1)
        IN  /\ sact.t # "num" => sres = Zero
            /\ sact.t = "num" =>
                  IF d >= m THEN sres = Zero
                  ELSE sres.num * m = (m - d) * sres.den
            /\ InUnit(sres)
            /\ (sact.t = "num" /\ sact.n = sexp.n) => sres = One
            /\ (sexp.n = 100 /\ sact = Num(0)) => sres = Zero

\* the score of (100, 0) has been computed
C12_Witness ==
    /\ spc = "done"
    /\ sexp = Num(100)
    /\ sact = Num(0)
    /\ sres = Zero

\* b is a followed by at least one more character
ProperExtension(a, b) ==
    /\ Len(b) > Len(a)
    /\ \A i \in 1..Len(a) : a[i] = b[i]

\* the contract of _text_similarity, the strict bounds being claimed for
\* proper extensions of strings of at least minlen characters
TextSimilarityContract(minlen) ==
    (spc = "done" /\ sexp.t = "str") =>
        /\ sact.t # "str" => sres = Zero
        /\ InUnit(sres)
        /\ sact = sexp => sres = One
        /\ (sact.t = "str" /\ Len(sexp.s) >= 1 /\ Len(sact.s) >= 1
                /\ Range(sexp.s) \cap Range(sact.s) = {}) => sres = Zero
        /\ (sact.t = "str" /\ Len(sexp.s) >= minlen
                /\ ProperExtension(sexp.s, sact.s)) =>
              sres # Zero /\ sres # One

\* C13 as claimed: _text_similarity is 0 when actual is not a string,
\* otherwise in [0, 1], exactly 1.0 for identical strings, exactly 0.0 for
\* two strings of length >= 1 without a common character, and strictly
\* between 0 and 1 for a string and a proper extension of it.
C13_TextSimilarityAnyExtension == TextSimilarityContract(0)

\* C13 amended: as claimed, the strict bounds holding for a string of
\* length >= 1 and a proper extension of it (the empty string scores 0.0
\* against every non-empty string).
C13_TextSimilarityNonEmptyExtension ==
    /\ TextSimilarityContract(1)
    /\ (spc = "done" /\ sexp = Str(<<>>) /\ sact.t = "str"
            /\ sact.s # <<>>) => sres = Zero

\* the score of ("Acme Corp", "Acme Corporation") has been computed and is
\* strictly between 0 and 1
C13_Witness ==
    /\ spc = "done"
    /\ sexp = Str(AcmeCorp)
    /\ sact = Str(AcmeCorporation)
    /\ sres = Rat(18, 25)

\* the sum of the rationals F[x] for x in S
RECURSIVE SumRat(_, _)
SumRat(S, F) ==
    IF S = {} THEN Zero
    ELSE LET x == CHOOSE y \in S : TRUE
         IN  RAdd(F[x], SumRat(S \ {x}, F))

\* the flattened leaves of document id of a corpus
FlatOf(corpus, id) == _flatten_fields(Get(corpus, id), <<>>)

\* the similarity the leaf <<id, path>> of the ground truth earns: that of
\* its class against the predicted value, and nothing when the document or
\* the path has no prediction or the predicted value is null
LeafSimilarity(leaf) ==
    LET expected == Get(FlatOf(ground_truth, leaf[1]), leaf[2])
        predicted ==
            IF HasKey(predictions, leaf[1])
            THEN DictGetOrNone(FlatOf(predictions, leaf[1]), leaf[2])
            ELSE Null
    IN  IF predicted = Null THEN Zero
        ELSE IF IsNum(expected) THEN _numeric_similarity(expected, predicted)
        ELSE _text_similarity(IF expected.t = "str" THEN expected.s
                              ELSE json_dumps(expected), predicted)

\* the sum of the similarities of the leaves of the ground truth
\* satisfying Q
SimilaritySum(Q(_)) ==
    LET L == LeavesWhere(ground_truth, Q)
    IN  SumRat(L, [leaf \in L |-> LeafSimilarity(leaf)])

\* the four metrics at full precision, from the two corpora
ExactCoverage ==
    IF ground_truth = <<>> THEN Zero
    ELSE Rat(Cardinality(KeySet(ground_truth) \cap KeySet(predictions)),
             Cardinality(KeySet(ground_truth)))
ExactStructural ==
    LET all == LeavesWhere(ground_truth, AnyLeaf)
        hit == { leaf \in all :
                   /\ HasKey(predictions, leaf[1])
                   /\ HasKey(FlatOf(predictions, leaf[1]), leaf[2]) }
    IN  IF all = {} THEN One ELSE Rat(Cardinality(hit), Cardinality(all))
ExactNumeric ==
    LET L == LeavesWhere(ground_truth, IsNum)
    IN  IF L = {} THEN One ELSE RDivInt(SimilaritySum(IsNum), Cardinality(L))
ExactText ==
    LET L == LeavesWhere(ground_truth, IsNotNum)
    IN  IF L = {} THEN One
        ELSE RDivInt(SimilaritySum(IsNotNum), Cardinality(L))
ExactMean ==
    RDivInt(RAdd(RAdd(ExactCoverage, ExactStructural),
                 RAdd(ExactNumeric, ExactText)), 4)

\* C14: each of the four reported metrics is its unrounded value rounded
\* to 4 decimals, the reported overall_score is the mean of the four
\* unrounded metrics rounded once to 4 decimals, and the running sums hold
\* the unrounded sums of the similarities when the report is built.
C14_RoundedOnceInReport ==
    [][ IsReturnReport =>
          LET r == metrics'[1]
          IN  /\ ev.numeric_score = SimilaritySum(IsNum)
              /\ ev.text_score = SimilaritySum(IsNotNum)
              /\ r.document_coverage = round(ExactCoverage, NDigits)
              /\ r.structural_completeness = round(ExactStructural, NDigits)
              /\ r.numeric_field_similarity = round(ExactNumeric, NDigits)
              /\ r.text_field_similarity = round(ExactText, NDigits)
              /\ r.overall_score = round(ExactMean, NDigits)
      ]_vars

\* a report whose text similarity and overall score were changed by the
\* rounding, and whose overall score is not the rounded mean of the four
\* reported metrics
C14_Witness ==
    /\ HasReport
    /\ report.text_field_similarity # ExactText
    /\ report.overall_score # ExactMean
    /\ report.overall_score #
          round(RDivInt(RAdd(RAdd(report.document_coverage,
                                  report.structural_completeness),
                             RAdd(report.numeric_field_similarity,
                                  report.text_field_similarity)), 4),
                NDigits)

\* the predicted value is not of the class of the expected one: not a
\* number (or a boolean) where a number is expected, not a string where
\* anything else is expected
WrongType(expected, predicted) ==
    IF IsNum(expected) THEN predicted.t # "num" ELSE predicted.t # "str"

\* what the path k of the document being handled adds to the sum of its
\* class: nothing for a value of the wrong type, the similarity otherwise
Contribution(G, P, k) ==
    IF WrongType(Get(G, k), Get(P, k)) THEN Zero
    ELSE LeafSimilarity(<<CurId, k>>)

\* C15: for a ground-truth document with a prediction, every ground-truth
\* path adds one to the total of its class (numeric for a non-boolean
\* number, text otherwise) whether or not it is predicted; the sums grow
\* only by the similarities of the paths present in the prediction; a
\* predicted value of the wrong type (a boolean or null included) raises
\* no error, counts as matched and adds 0 to the sum.
C15_TotalsAlwaysSumsWhenPresent ==
    [][ (IsEvalDocStep /\ HasKey(predictions, CurId)) =>
          LET G == FlatOf(ground_truth, CurId)
              P == FlatOf(predictions, CurId)
              num == { k \in KeySet(G) : IsNum(Get(G, k)) }
              txt == KeySet(G) \ num
              both == KeySet(G) \cap KeySet(P)
              add == [k \in both |-> Contribution(G, P, k)]
          IN  /\ ev'.numeric_total = ev.numeric_total + Cardinality(num)
              /\ ev'.text_total = ev.text_total + Cardinality(txt)
              /\ ev'.numeric_score =
                     RAdd(ev.numeric_score, SumRat(both \cap num, add))
              /\ ev'.text_score =
                     RAdd(ev.text_score, SumRat(both \cap txt, add))
              /\ ev'.matched_fields =
                     ev.matched_fields + Cardinality(both)
              /\ pc' = "eval"
              /\ fatal' = fatal
      ]_vars

\* a predicted document has just been handled whose text leaf "a" was
\* predicted as a number and whose other leaf was not predicted: both are
\* in the text total, one is matched, the sum is still 0
C15_Witness ==
    /\ pc = "eval"
    /\ gi = 2
    /\ HasKey(predictions, LastId)
    /\ LET G == FlatOf(ground_truth, LastId)
           P == FlatOf(predictions, LastId)
       IN  /\ HasKey(G, <<"a">>) /\ HasKey(P, <<"a">>)
           /\ Get(G, <<"a">>).t = "str"
           /\ Get(P, <<"a">>).t = "num"
           /\ KeySet(G) \ KeySet(P) # {}
    /\ ev.text_total = 2
    /\ ev.matched_fields = 1
    /\ ev.text_score = Zero

\* C16: in every report missing_documents and extra_documents are sorted
\* and free of duplicates, the keys of missing_fields and extra_fields are
\* in sorted order, and each value of missing_fields and extra_fields is a
\* sorted, non-empty list of paths, whatever the order of the documents
\* and of the fields in the two corpora.
C16_ReportListsSorted ==
    HasReport =>
        /\ IsSorted(report.missing_documents)
        /\ IsSorted(report.extra_documents)
        /\ IsSorted(keys(report.missing_fields))
        /\ IsSorted(keys(report.extra_fields))
        /\ \A d \in { report.missing_fields, report.extra_fields } :
              \A i \in 1..Len(d) : d[i][2] # <<>> /\ IsSorted(d[i][2])

\* a report for a ground truth that holds document "b" before document
\* "a", the fields of "a" being in the order "b", "a", with both documents
\* and both fields of "a" reported missing
C16_Witness ==
    /\ HasReport
    /\ keys(ground_truth) = << <<"b">>, <<"a">> >>
    /\ keys(FlatOf(ground_truth, <<"a">>)) = << <<"b">>, <<"a">> >>
    /\ report.missing_documents = << <<"a">>, <<"b">> >>
    /\ keys(report.missing_fields) = << <<"a">>, <<"b">> >>
    /\ Get(report.missing_fields, <<"a">>) = << <<"a">>, <<"b">> >>

\* the position of the last record of the payload carrying the id
LastRecord(id) ==
    CHOOSE i \in 1..Len(payload) :
        /\ payload[i].document_id = Str(id)
        /\ \A j \in (i + 1)..Len(payload) : payload[j].document_id # Str(id)

\* C17: after any sequence of valid records, repeated document ids
\* included, the loader has not failed, the documents map each id to the
\* fields of the last record carrying it, and there are as many documents
\* as distinct ids.
C17_LastRecordWins ==
    (\A i \in 1..Len(payload) : payload[i] \in ValidEntries) =>
        LET ids == { payload[i].document_id.s : i \in 1..Len(payload) }
        IN  /\ lpc # "raised"
            /\ KeySet(ldocuments) = ids
            /\ Len(ldocuments) = Cardinality(ids)
            /\ \A id \in ids :
                  Get(ldocuments, id) = payload[LastRecord(id)].fields

\* a payload of three valid records has been loaded whose first and last
\* carry the same id with different fields, the second another id
C17_Witness ==
    /\ lpc = "returned"
    /\ Len(payload) = 3
    /\ \A i \in 1..3 : payload[i] \in ValidEntries
    /\ payload[1].document_id = payload[3].document_id
    /\ payload[1].fields # payload[3].fields
    /\ payload[2].document_id # payload[1].document_id
    /\ Len(ldocuments) = 2

\* the sum of the lengths of the lists a dict holds
RECURSIVE SumLens(_)
SumLens(d) == IF d = <<>> THEN 0 ELSE Len(Head(d)[2]) + SumLens(Tail(d))

\* C18: in every report missing_field_count and extra_field_count are the
\* sums of the lengths of the lists of missing_fields and extra_fields,
\* the matched paths and the missing ones add up to num_fields, so do the
\* numeric and the text total, num_documents is the number of documents
\* with a prediction plus the number of missing documents, and
\* num_documents and num_fields are the numbers of documents and of
\* flattened leaves of the ground truth, whatever the predictions.
C18_CountersConsistent ==
    HasReport =>
        /\ report.missing_field_count = SumLens(report.missing_fields)
        /\ report.extra_field_count = SumLens(report.extra_fields)
        /\ ev.matched_fields + report.missing_field_count = report.num_fields
        /\ ev.numeric_total + ev.text_total = report.num_fields
        /\ report.num_documents =
               Cardinality(KeySet(ground_truth) \cap KeySet(predictions))
               + Len(report.missing_documents)
        /\ ev.docs_with_predictions =
               Cardinality(KeySet(ground_truth) \cap KeySet(predictions))
        /\ report.num_documents = Cardinality(KeySet(ground_truth))
        /\ report.num_fields =
               Cardinality(LeavesWhere(ground_truth, AnyLeaf))
        /\ LET alone == evaluate_predictions(ground_truth, <<>>)
           IN  /\ report.num_documents = alone.num_documents
               /\ report.num_fields = alone.num_fields

\* a report with a missing document, a predicted document with matched,
\* missing and extra paths, and leaves of both classes
C18_Witness ==
    /\ HasReport
    /\ Len(report.missing_documents) = 1
    /\ Len(report.missing_fields) = 2
    /\ report.extra_field_count > 0
    /\ ev.matched_fields > 0
    /\ ev.numeric_total > 0
    /\ ev.text_total > 0
====
